---- MODULE Spec2Model ----
(***************************************************************************)
(* A model of the CORS middleware of raptor-js/cors (src/src/cors.ts).     *)
(*                                                                         *)
(* One Cors instance is constructed from an optional partial Config and    *)
(* then handles requests: handleCors(context, next) reads the request's    *)
(* Origin header, writes the CORS headers on context.response.headers and  *)
(* either returns a 204 Response (method "OPTIONS") or calls next().       *)
(*                                                                         *)
(* JavaScript values are modelled as records of one shape,                 *)
(*     [kind, str, arr, fn, b],                                            *)
(* so that any two of them can be compared: kind names the JavaScript type *)
(* of the value and the field of that type holds it.  kind "absent" stands *)
(* for an own property an object does not have.                            *)
(*                                                                         *)
(* A Headers object (the platform's class) is modelled as a function from  *)
(* lower-cased header names to values: set and get lower-case the name     *)
(* they are given, and set overwrites.  Header values are taken to be      *)
(* normalised already (no surrounding white space, no forbidden bytes),    *)
(* so set stores the value it is given.                                    *)
(***************************************************************************)
EXTENDS Integers, Sequences, FiniteSets, TLC

VARIABLES
    supplied,   \* the object passed to the constructor (ghost: kept to state claims)
    config,     \* Cors.config
    calls,      \* ghost: the number of handleCors calls made on the instance
    ctx,        \* the contexts in flight, one per request slot
    overlap     \* ghost: the slots whose call ran a statement while another
                \* slot's call was between two of its statements

vars == <<supplied, config, calls, ctx, overlap>>

---------------------------------------------------------------------------
(* Bounds of the model *)

\* handleCors calls made on one instance
MaxCalls == 2

---------------------------------------------------------------------------
(* JavaScript values *)

Val(k, s, a, f, b) == [kind |-> k, str |-> s, arr |-> a, fn |-> f, b |-> b]

Absent == Val("absent", "", <<>>, "", FALSE)
Undefined == Val("undefined", "", <<>>, "", FALSE)
Null == Val("null", "", <<>>, "", FALSE)
Str(s) == Val("string", s, <<>>, "", FALSE)
Arr(a) == Val("array", "", a, "", FALSE)
Fn(f) == Val("function", "", <<>>, f, FALSE)
Bool(b) == Val("boolean", "", <<>>, "", b)

\* JavaScript's ToBoolean on the values above: undefined, null, "" and false
\* are falsy; arrays (also the empty one) and functions are truthy.
Truthy(v) ==
    CASE v.kind = "string" -> v.str # ""
      [] v.kind = "boolean" -> v.b
      [] v.kind \in {"array", "function"} -> TRUE
      [] OTHER -> FALSE

\* Array.prototype.includes on an array of strings
Includes(arr, s) == \E i \in 1..Len(arr) : arr[i] = s

\* Array.prototype.join on an array of strings
RECURSIVE Join(_, _)
Join(arr, sep) ==
    IF Len(arr) = 0 THEN ""
    ELSE IF Len(arr) = 1 THEN arr[1]
    ELSE arr[1] \o sep \o Join(Tail(arr), sep)

---------------------------------------------------------------------------
(* Headers *)

\* The lower-casing of a header name, on the names the model uses.
Lower(name) ==
    CASE name = "Origin" -> "origin"
      [] name = "Access-Control-Allow-Origin" -> "access-control-allow-origin"
      [] name = "Access-Control-Allow-Credentials" -> "access-control-allow-credentials"
      [] name = "Access-Control-Allow-Methods" -> "access-control-allow-methods"
      [] name = "Access-Control-Allow-Headers" -> "access-control-allow-headers"
      [] name = "Access-Control-Max-Age" -> "access-control-max-age"
      [] name = "Access-Control-Expose-Headers" -> "access-control-expose-headers"
      [] name = "X-Request-Id" -> "x-request-id"
      [] OTHER -> name

NoHeaders == [n \in {} |-> ""]

\* Headers.prototype.get: the value, or null
HeadersGet(h, name) ==
    IF Lower(name) \in DOMAIN h THEN Str(h[Lower(name)]) ELSE Null

\* Headers.prototype.set: last write wins
HeadersSet(h, name, value) ==
    [n \in DOMAIN h \cup {Lower(name)} |-> IF n = Lower(name) THEN value ELSE h[n]]

---------------------------------------------------------------------------
(* The configuration *)

HttpMethodGET == "GET"
HttpMethodPOST == "POST"
HttpMethodPUT == "PUT"
HttpMethodPATCH == "PATCH"
HttpMethodDELETE == "DELETE"
HttpMethodOPTIONS == "OPTIONS"
HttpMethodTRACE == "TRACE"

Fields == {"origin", "methods", "headers", "maxAge", "credentials", "exposeHeaders"}

\* Cors.initialiseDefaultConfig
initialiseDefaultConfig ==
    [ origin |-> Str("*"),
      methods |-> Arr(<< HttpMethodGET, HttpMethodPOST, HttpMethodPUT, HttpMethodPATCH,
                         HttpMethodDELETE, HttpMethodOPTIONS, HttpMethodTRACE >>),
      headers |-> Arr(<<"Content-Type", "Authorization">>),
      maxAge |-> Str("86400"),
      credentials |-> Bool(FALSE),
      exposeHeaders |-> Arr(<<>>) ]

\* An object spread { ...a, ...b }: b's own properties win, also one whose
\* value is undefined; a property b does not have keeps a's value.
Spread(a, b) == [f \in Fields |-> IF b[f].kind = "absent" THEN a[f] ELSE b[f]]

\* The constructor with the two spreads in the wrong order
MutConstructor(cfg) == Spread(cfg, initialiseDefaultConfig)

\* Cors.constructor: this.config = { ...defaults, ...config }
Constructor(cfg) == Spread(initialiseDefaultConfig, cfg)

---------------------------------------------------------------------------
(* Origin predicates: the functions a Config may give as origin.  Calling  *)
(* one returns a boolean or throws.                                         *)

Returns(b) == [threw |-> FALSE, value |-> b, error |-> ""]
Throws(e) == [threw |-> TRUE, value |-> FALSE, error |-> e]

\* origin(requestOrigin), for the predicates of the model:
\*   endsWithExampleCom   (origin) => origin.endsWith(".example.com")
\*   allowAll             () => true
\*   strict               true for https://example.com, throws on
\*                        https://different.com, false otherwise
\*   broken               always throws
CallOrigin(fn, s) ==
    CASE fn = "endsWithExampleCom" -> Returns(s = "https://app.example.com")
      [] fn = "allowAll" -> Returns(TRUE)
      [] fn = "strict" ->
            IF s = "https://different.com" THEN Throws("Error: forbidden origin")
            ELSE Returns(s = "https://example.com")
      [] fn = "broken" -> Throws("TypeError: broken")
      [] OTHER -> Returns(FALSE)

---------------------------------------------------------------------------
(* Cors.getAllowedOrigin *)

Return(v) == [threw |-> FALSE, value |-> v, error |-> ""]
Raise(e) == [threw |-> TRUE, value |-> Null, error |-> e]

\* getAllowedOrigin trusting a list or a predicate without asking it
MutGetAllowedOrigin(cfg, requestOrigin) ==
    LET origin == cfg.origin IN
    IF ~Truthy(origin) THEN Return(Str("*"))
    ELSE IF origin.kind = "string" THEN Return(origin)
    ELSE Return(requestOrigin)

\* getAllowedOrigin reflecting the request's Origin for a literal string
MutGetAllowedOriginReflect(cfg, requestOrigin) ==
    LET origin == cfg.origin IN
    IF ~Truthy(origin) THEN Return(Str("*"))
    ELSE IF origin.kind = "string"
        THEN (IF Truthy(requestOrigin) THEN Return(requestOrigin) ELSE Return(origin))
    ELSE IF origin.kind = "array"
        THEN (IF ~Truthy(requestOrigin) THEN Return(Null)
              ELSE IF Includes(origin.arr, requestOrigin.str) THEN Return(requestOrigin)
              ELSE Return(Null))
    ELSE Return(Null)

\* getAllowedOrigin catching what the predicate throws (and denying)
MutGetAllowedOriginCatch(cfg, requestOrigin) ==
    LET origin == cfg.origin IN
    IF ~Truthy(origin) THEN Return(Str("*"))
    ELSE IF origin.kind = "string" THEN Return(origin)
    ELSE IF origin.kind = "array"
        THEN (IF ~Truthy(requestOrigin) THEN Return(Null)
              ELSE IF Includes(origin.arr, requestOrigin.str) THEN Return(requestOrigin)
              ELSE Return(Null))
    ELSE IF origin.kind = "function"
        THEN (IF ~Truthy(requestOrigin) THEN Return(Null)
              ELSE LET r == CallOrigin(origin.fn, requestOrigin.str) IN
                   IF r.threw THEN Return(Null)
                   ELSE IF r.value THEN Return(requestOrigin)
                   ELSE Return(Null))
    ELSE Return(Null)

\* The allowed origin (a string or null), or the error the predicate threw.
getAllowedOrigin(cfg, requestOrigin) ==
    LET origin == cfg.origin IN
    \* No origin configured, default to wildcard
    IF ~Truthy(origin) THEN Return(Str("*"))
    \* String: single origin or wildcard
    ELSE IF origin.kind = "string" THEN Return(origin)
    \* Array: multiple origins
    ELSE IF origin.kind = "array"
        THEN (IF ~Truthy(requestOrigin) THEN Return(Null)
              ELSE IF Includes(origin.arr, requestOrigin.str) THEN Return(requestOrigin)
              ELSE Return(Null))
    \* Function: dynamic validation
    ELSE IF origin.kind = "function"
        THEN (IF ~Truthy(requestOrigin) THEN Return(Null)
              ELSE LET r == CallOrigin(origin.fn, requestOrigin.str) IN
                   IF r.threw THEN Raise(r.error)
                   ELSE IF r.value THEN Return(requestOrigin)
                   ELSE Return(Null))
    ELSE Return(Null)

---------------------------------------------------------------------------
(* Contexts.  A context holds the request (method, headers), the response  *)
(* (headers) and, for the model, the continuation it is handled with and   *)
(* what the call did: pc is "idle" (no request), "ready" (handleCors not   *)
(* yet called), "returned" or "threw".                                      *)

NoResult == [kind |-> "none", status |-> 0, body |-> Null, headers |-> NoHeaders, value |-> ""]

\* new Response(body, { status, headers }): the headers are copied
NewResponse(body, status, headers) ==
    [kind |-> "Response", status |-> status, body |-> body, headers |-> headers, value |-> ""]

\* what next() returned
NextResult(v) ==
    [kind |-> "next", status |-> 0, body |-> Null, headers |-> NoHeaders, value |-> v]

\* createMockContext(method, origin) with a response that holds `before`,
\* to be handled with a continuation returning `next`
Context(method, reqHeaders, before, next) ==
    [ pc |-> "ready",
      request |-> [method |-> method, headers |-> reqHeaders],
      response |-> [headers |-> before],
      next |-> next,
      before |-> before,      \* ghost: the response headers before the call
      sets |-> <<>>,          \* ghost: the response.headers.set calls made
      nextCalls |-> 0,        \* ghost: how often next was called
      result |-> NoResult,    \* what handleCors returned
      error |-> "" ]          \* what handleCors threw

IdleContext == [Context("", NoHeaders, NoHeaders, "") EXCEPT !.pc = "idle"]

\* a set that replaces the collection by the one header
MutResponseSet(c, name, value) ==
    [c EXCEPT !.response.headers = HeadersSet(NoHeaders, name, value),
              !.sets = Append(@, <<name, value>>)]

\* context.response.headers.set(name, value)
ResponseSet(c, name, value) ==
    [c EXCEPT !.response.headers = HeadersSet(@, name, value),
              !.sets = Append(@, <<name, value>>)]

---------------------------------------------------------------------------
(* Cors.handleCors, statement by statement *)

\* the credentials test without the wildcard exclusion
MutAllowCredentials(cfg, allowedOrigin) == Truthy(cfg.credentials)

\* this.config.credentials && allowedOrigin !== "*"
AllowCredentials(cfg, allowedOrigin) ==
    Truthy(cfg.credentials) /\ allowedOrigin # Str("*")

\* lines 44-62: resolve the allowed origin, set the origin and credentials headers
StepOrigin(cfg, c) ==
    LET requestOrigin == HeadersGet(c.request.headers, "Origin")
        r == getAllowedOrigin(cfg, requestOrigin)
    IN  IF r.threw THEN [c EXCEPT !.pc = "threw", !.error = r.error]
        ELSE IF Truthy(r.value)
            THEN LET c1 == ResponseSet(c, "Access-Control-Allow-Origin", r.value.str)
                 IN  IF AllowCredentials(cfg, r.value)
                        THEN ResponseSet(c1, "Access-Control-Allow-Credentials", "true")
                        ELSE c1
        ELSE c

\* a list field joined in the reverse of the declared order
MutListHeader(v) == Join([i \in 1..Len(v.arr) |-> v.arr[Len(v.arr) + 1 - i]], ", ")

\* this.config.<list>.join(", ")
ListHeader(v) == Join(v.arr, ", ")

\* this.config.<list> && this.config.<list>.length > 0
HasList(v) == Truthy(v) /\ Len(v.arr) > 0

\* lines 65-70: allowed methods
StepMethods(cfg, c) ==
    IF HasList(cfg.methods)
        THEN ResponseSet(c, "Access-Control-Allow-Methods", ListHeader(cfg.methods))
        ELSE c

\* lines 73-78: allowed headers
StepHeaders(cfg, c) ==
    IF HasList(cfg.headers)
        THEN ResponseSet(c, "Access-Control-Allow-Headers", ListHeader(cfg.headers))
        ELSE c

\* lines 81-86: max age for the preflight cache
StepMaxAge(cfg, c) ==
    IF Truthy(cfg.maxAge)
        THEN ResponseSet(c, "Access-Control-Max-Age", cfg.maxAge.str)
        ELSE c

\* lines 89-94: exposed headers
StepExposeHeaders(cfg, c) ==
    IF HasList(cfg.exposeHeaders)
        THEN ResponseSet(c, "Access-Control-Expose-Headers", ListHeader(cfg.exposeHeaders))
        ELSE c

\* the preflight test on any spelling of the method
MutIsPreflight(method) == method \in {"OPTIONS", "options"}

\* context.request.method === "OPTIONS"
IsPreflight(method) == method = "OPTIONS"

\* a preflight response built without the response's headers
MutStepReturn(c) ==
    IF IsPreflight(c.request.method)
        THEN [c EXCEPT !.pc = "returned",
                       !.result = NewResponse(Null, 204, NoHeaders)]
        ELSE [c EXCEPT !.pc = "returned", !.nextCalls = @ + 1,
                       !.result = NextResult(c.next)]

\* lines 97-105: the 204 response of a preflight, or next()
StepReturn(c) ==
    IF IsPreflight(c.request.method)
        THEN [c EXCEPT !.pc = "returned",
                       !.result = NewResponse(Null, 204, c.response.headers)]
        ELSE [c EXCEPT !.pc = "returned", !.nextCalls = @ + 1,
                       !.result = NextResult(c.next)]

\* handleCors(context, next): the whole call
handleCors(cfg, c) ==
    LET c1 == StepOrigin(cfg, c) IN
    IF c1.pc = "threw" THEN c1
    ELSE StepReturn(StepExposeHeaders(cfg, StepMaxAge(cfg, StepHeaders(cfg, StepMethods(cfg, c1)))))

---------------------------------------------------------------------------
(* The inputs of the model *)

OriginValues ==
    { Undefined, Str(""), Str("*"), Str("https://example.com"),
      Arr(<<>>), Arr(<<"https://example.com", "https://app.example.com">>), Arr(<<"">>),
      Fn("endsWithExampleCom"), Fn("allowAll"), Fn("strict"), Fn("broken") }

MethodsValues == { Arr(<<>>), Arr(<<HttpMethodPOST, HttpMethodGET>>) }

HeadersValues == { Arr(<<>>), Arr(<<"Content-Type", "X-Custom-Header">>) }

MaxAgeValues == { Str(""), Str("7200") }

\* (credentials: false is the default: not giving the field resolves to it)
CredentialsValues == { Bool(TRUE) }

\* (exposeHeaders: [] is the default: not giving the field resolves to it)
ExposeHeadersValues == { Arr(<<"X-Total-Count", "X-Page-Number">>) }

\* The objects a caller may pass to the constructor: every field is given or not.
Configs ==
    [ origin : OriginValues \cup {Absent},
      methods : MethodsValues \cup {Absent},
      headers : HeadersValues \cup {Absent},
      maxAge : MaxAgeValues \cup {Absent},
      credentials : CredentialsValues \cup {Absent},
      exposeHeaders : ExposeHeadersValues \cup {Absent} ]

RequestMethods == {"OPTIONS", "options", "GET"}

RequestOrigins == {"", "https://example.com", "https://app.example.com", "https://different.com"}

\* request headers: no Origin, or one of the origins
RequestHeaders == {NoHeaders} \cup { HeadersSet(NoHeaders, "Origin", o) : o \in RequestOrigins }

\* response headers an earlier middleware may have set
EarlierHeaders ==
    { NoHeaders,
      HeadersSet(HeadersSet(HeadersSet(NoHeaders, "X-Request-Id", "42"),
                            "Access-Control-Allow-Credentials", "true"),
                 "Access-Control-Expose-Headers", "X-Old") }

\* what the continuation returns
NextValues == {"page", "error 500"}

Slots == {1}

---------------------------------------------------------------------------
(* The state machine *)

Init ==
    /\ supplied \in Configs
    /\ config = Constructor(supplied)
    /\ calls = 0
    /\ ctx = [s \in Slots |-> IdleContext]
    /\ overlap = {}

\* A request arrives in a free slot: a fresh context for it.
Receive(s) ==
    /\ ctx[s].pc = "idle"
    /\ calls < MaxCalls
    /\ \E method \in RequestMethods, rh \in RequestHeaders,
          before \in EarlierHeaders, next \in NextValues :
            ctx' = [ctx EXCEPT ![s] = Context(method, rh, before, next)]
    /\ UNCHANGED <<supplied, config, calls, overlap>>

\* a handler that remembers the origin it resolved in the configuration
MutHandleCors(s) ==
    /\ ctx[s].pc = "ready"
    /\ ctx' = [ctx EXCEPT ![s] = handleCors(config, ctx[s])]
    /\ config' = IF "access-control-allow-origin" \in DOMAIN ctx'[s].response.headers
                    THEN [config EXCEPT !.origin =
                            Str(ctx'[s].response.headers["access-control-allow-origin"])]
                    ELSE config
    /\ calls' = calls + 1
    /\ UNCHANGED <<supplied, overlap>>

\* The middleware runs on the context of slot s: handle(context, next).
HandleCors(s) ==
    /\ ctx[s].pc = "ready"
    /\ ctx' = [ctx EXCEPT ![s] = handleCors(config, ctx[s])]
    /\ calls' = calls + 1
    /\ UNCHANGED <<supplied, config, overlap>>

\* The request of slot s is over: its context is dropped.
Respond(s) ==
    /\ ctx[s].pc \in {"returned", "threw"}
    /\ ctx' = [ctx EXCEPT ![s] = IdleContext]
    /\ UNCHANGED <<supplied, config, calls, overlap>>

Next == \E s \in Slots : Receive(s) \/ HandleCors(s) \/ Respond(s)

Spec == Init /\ [][Next]_vars

---------------------------------------------------------------------------
(* Calls in flight together.  handleCors is synchronous, so a JavaScript   *)
(* host runs each call to its end; a host that runs requests in parallel   *)
(* (or a port of the component to one) may run the statements of calls on  *)
(* different contexts in any order.  SpecInterleaved is that machine: one  *)
(* instance, two slots each with a context of its own, and one action per  *)
(* group of statements of handleCors.  A context's pc then also takes the  *)
(* values "methods", "headers", "maxAge", "exposeHeaders" and "return":    *)
(* the statement its call runs next.                                       *)

InterleavedSlots == {1, 2}

NothingGiven == [f \in Fields |-> Absent]

\* the constructor arguments of the interleaved machine
InterleavedConfigs ==
    { NothingGiven,
      [NothingGiven EXCEPT
          !.origin = Arr(<<"https://example.com", "https://app.example.com">>),
          !.credentials = Bool(TRUE),
          !.exposeHeaders = Arr(<<"X-Total-Count", "X-Page-Number">>)],
      [NothingGiven EXCEPT
          !.origin = Fn("strict"),
          !.credentials = Bool(TRUE),
          !.maxAge = Str("")],
      [NothingGiven EXCEPT
          !.origin = Str("https://example.com"),
          !.methods = Arr(<<>>),
          !.headers = Arr(<<"Content-Type", "X-Custom-Header">>)] }

InterleavedMethods == {"OPTIONS", "GET"}

InterleavedRequestHeaders ==
    { NoHeaders,
      HeadersSet(NoHeaders, "Origin", "https://example.com"),
      HeadersSet(NoHeaders, "Origin", "https://different.com") }

\* a call between two of its statements
MidCall == {"methods", "headers", "maxAge", "exposeHeaders", "return"}

\* the slots a statement of slot s overlaps with: s itself and every slot
\* whose call is between two statements, if there is one
Overlapping(s) ==
    LET others == { t \in DOMAIN ctx \ {s} : ctx[t].pc \in MidCall } IN
    IF others = {} THEN {} ELSE others \cup {s}

InitInterleaved ==
    /\ supplied \in InterleavedConfigs
    /\ config = Constructor(supplied)
    /\ calls = 0
    /\ ctx = [s \in InterleavedSlots |-> IdleContext]
    /\ overlap = {}

\* A request arrives in a free slot: a fresh context, with a response of its own.
ReceiveInterleaved(s) ==
    /\ ctx[s].pc = "idle"
    /\ calls + Cardinality({ t \in DOMAIN ctx : ctx[t].pc = "ready" }) < MaxCalls
    /\ \E method \in InterleavedMethods, rh \in InterleavedRequestHeaders,
          before \in EarlierHeaders, next \in NextValues :
            ctx' = [ctx EXCEPT ![s] = Context(method, rh, before, next)]
    /\ overlap' = overlap \ {s}
    /\ UNCHANGED <<supplied, config, calls>>

\* the statements of slot s taking context c to c2, which is then at pc
Statement(s, c2, pc) ==
    /\ ctx' = [ctx EXCEPT ![s] = IF c2.pc \in {"returned", "threw"} THEN c2
                                 ELSE [c2 EXCEPT !.pc = pc]]
    /\ overlap' = overlap \cup Overlapping(s)
    /\ UNCHANGED <<supplied, config>>

\* lines 44-62 as if every context in flight held the same response object
MutDoOrigin(s) ==
    /\ ctx[s].pc = "ready"
    /\ LET c2 == StepOrigin(config, ctx[s]) IN
       ctx' = [t \in DOMAIN ctx |->
                 IF t = s
                    THEN (IF c2.pc = "threw" THEN c2 ELSE [c2 EXCEPT !.pc = "methods"])
                 ELSE IF ctx[t].pc \in MidCall \cup {"ready"}
                    THEN [ctx[t] EXCEPT !.response.headers = c2.response.headers]
                 ELSE ctx[t]]
    /\ overlap' = overlap \cup Overlapping(s)
    /\ calls' = calls + 1
    /\ UNCHANGED <<supplied, config>>

\* lines 44-62 on the context of slot s
DoOrigin(s) ==
    /\ ctx[s].pc = "ready"
    /\ Statement(s, StepOrigin(config, ctx[s]), "methods")
    /\ calls' = calls + 1

\* lines 65-70 on the context of slot s
DoMethods(s) ==
    /\ ctx[s].pc = "methods"
    /\ Statement(s, StepMethods(config, ctx[s]), "headers")
    /\ UNCHANGED calls

\* lines 73-78 on the context of slot s
DoHeaders(s) ==
    /\ ctx[s].pc = "headers"
    /\ Statement(s, StepHeaders(config, ctx[s]), "maxAge")
    /\ UNCHANGED calls

\* lines 81-86 on the context of slot s
DoMaxAge(s) ==
    /\ ctx[s].pc = "maxAge"
    /\ Statement(s, StepMaxAge(config, ctx[s]), "exposeHeaders")
    /\ UNCHANGED calls

\* lines 89-94 on the context of slot s
DoExposeHeaders(s) ==
    /\ ctx[s].pc = "exposeHeaders"
    /\ Statement(s, StepExposeHeaders(config, ctx[s]), "return")
    /\ UNCHANGED calls

\* lines 97-105 on the context of slot s
DoReturn(s) ==
    /\ ctx[s].pc = "return"
    /\ Statement(s, StepReturn(ctx[s]), "returned")
    /\ UNCHANGED calls

NextInterleaved ==
    \E s \in InterleavedSlots :
        \/ ReceiveInterleaved(s)
        \/ DoOrigin(s)
        \/ DoMethods(s)
        \/ DoHeaders(s)
        \/ DoMaxAge(s)
        \/ DoExposeHeaders(s)
        \/ DoReturn(s)
        \/ Respond(s)

SpecInterleaved == InitInterleaved /\ [][NextInterleaved]_vars

---------------------------------------------------------------------------
(* What the claims speak of *)

\* the call on context c is over
Done(c) == c.pc \in {"returned", "threw"}

\* the call on context c set header `name`
WasSet(c, name) == \E i \in 1..Len(c.sets) : c.sets[i][1] = name

\* the lower-cased names of the headers the call on context c set
SetNames(c) == { Lower(c.sets[i][1]) : i \in 1..Len(c.sets) }

\* the request's Origin header is there, and its value
HasOrigin(c) == "origin" \in DOMAIN c.request.headers
OriginOf(c) == c.request.headers["origin"]

\* the policy's list or predicate accepts the request's Origin
Accepted(cfg, c) ==
    /\ HasOrigin(c)
    /\ \/ cfg.origin.kind = "array" /\ Includes(cfg.origin.arr, OriginOf(c))
       \/ /\ cfg.origin.kind = "function"
          /\ CallOrigin(cfg.origin.fn, OriginOf(c)) = Returns(TRUE)

\* the policy's predicate throws on the request's Origin when called with it
PredicateThrows(cfg, c) ==
    /\ cfg.origin.kind = "function"
    /\ HasOrigin(c)
    /\ OriginOf(c) # ""
    /\ CallOrigin(cfg.origin.fn, OriginOf(c)).threw

---------------------------------------------------------------------------
(* C1: once a call is over, it has set Access-Control-Allow-Credentials    *)
(* (to "true") if and only if config.credentials is true, it has set an    *)
(* Access-Control-Allow-Origin, and that origin is not "*"; on a response  *)
(* that held no headers the header is there in exactly that case.          *)
C1_CredentialsIff ==
    \A s \in DOMAIN ctx :
        LET c == ctx[s]
            should == /\ config.credentials = Bool(TRUE)
                      /\ WasSet(c, "Access-Control-Allow-Origin")
                      /\ HeadersGet(c.response.headers, "Access-Control-Allow-Origin") # Str("*")
        IN  Done(c) =>
              /\ WasSet(c, "Access-Control-Allow-Credentials") <=> should
              /\ should =>
                   HeadersGet(c.response.headers, "Access-Control-Allow-Credentials") = Str("true")
              /\ (c.before = NoHeaders /\ ~should) =>
                   HeadersGet(c.response.headers, "Access-Control-Allow-Credentials") = Null

\* a call that set the credentials header
C1_Witness ==
    \E s \in DOMAIN ctx :
        /\ ctx[s].pc = "returned"
        /\ WasSet(ctx[s], "Access-Control-Allow-Credentials")
        /\ HeadersGet(ctx[s].response.headers, "Access-Control-Allow-Origin")
              = Str("https://app.example.com")

---------------------------------------------------------------------------
(* C2: next is never called for a request whose method is exactly          *)
(* "OPTIONS", and a call that returns for it returns a Response of status  *)
(* 204 with no body; a call that returns for any other method, "options"   *)
(* included, has called next exactly once and returns what next returned.  *)
(* (A call that does not return throws: C9.)                               *)
C2_PreflightOrNext ==
    \A s \in DOMAIN ctx :
        LET c == ctx[s] IN
        /\ c.nextCalls <= 1
        /\ c.request.method = "OPTIONS" => c.nextCalls = 0
        /\ c.pc = "returned" =>
             IF c.request.method = "OPTIONS"
                THEN /\ c.result.kind = "Response"
                     /\ c.result.status = 204
                     /\ c.result.body = Null
                ELSE /\ c.nextCalls = 1
                     /\ c.result = NextResult(c.next)

\* a call for method "options" that went on to next
C2_Witness ==
    \E s \in DOMAIN ctx :
        /\ ctx[s].pc = "returned"
        /\ ctx[s].request.method = "options"
        /\ ctx[s].nextCalls = 1
        /\ ctx[s].result = NextResult("error 500")

---------------------------------------------------------------------------
(* C3 as stated: under a list or a predicate, a call that is over has set  *)
(* Access-Control-Allow-Origin if and only if the request has an Origin    *)
(* header that the list holds or the predicate accepts, and then to the    *)
(* request's Origin.                                                        *)
C3_AsStated ==
    \A s \in DOMAIN ctx :
        LET c == ctx[s] IN
        (Done(c) /\ config.origin.kind \in {"array", "function"}) =>
            /\ WasSet(c, "Access-Control-Allow-Origin") <=> Accepted(config, c)
            /\ WasSet(c, "Access-Control-Allow-Origin") =>
                 HeadersGet(c.response.headers, "Access-Control-Allow-Origin") = Str(OriginOf(c))

(* C3, amended: ... if and only if the request has a non-empty Origin      *)
(* header that the list holds or the predicate accepts, and then to the    *)
(* request's Origin; on a response that held no headers the header is      *)
(* absent otherwise.                                                        *)
C3_ListOrPredicate ==
    \A s \in DOMAIN ctx :
        LET c == ctx[s]
            allowed == Accepted(config, c) /\ OriginOf(c) # ""
        IN  (Done(c) /\ config.origin.kind \in {"array", "function"}) =>
              /\ WasSet(c, "Access-Control-Allow-Origin") <=> allowed
              /\ allowed =>
                   HeadersGet(c.response.headers, "Access-Control-Allow-Origin") = Str(OriginOf(c))
              /\ (c.before = NoHeaders /\ ~allowed) =>
                   HeadersGet(c.response.headers, "Access-Control-Allow-Origin") = Null

\* a call that allowed the second origin of a list
C3_Witness ==
    \E s \in DOMAIN ctx :
        /\ ctx[s].pc = "returned"
        /\ config.origin.kind = "array"
        /\ HasOrigin(ctx[s])
        /\ OriginOf(ctx[s]) = "https://app.example.com"
        /\ HeadersGet(ctx[s].response.headers, "Access-Control-Allow-Origin")
              = Str("https://app.example.com")

---------------------------------------------------------------------------
(* C4 as stated: under an origin that is a string S, a call that is over   *)
(* has set Access-Control-Allow-Origin to S, whatever the request's Origin. *)
C4_AsStated ==
    \A s \in DOMAIN ctx :
        LET c == ctx[s] IN
        (Done(c) /\ config.origin.kind = "string") =>
            /\ WasSet(c, "Access-Control-Allow-Origin")
            /\ HeadersGet(c.response.headers, "Access-Control-Allow-Origin") = config.origin

(* C4, amended: under an origin that is a non-empty string S, a call that  *)
(* is over has set Access-Control-Allow-Origin to S, whatever the          *)
(* request's Origin; under the empty string it has set it to "*".          *)
C4_LiteralOrigin ==
    \A s \in DOMAIN ctx :
        LET c == ctx[s] IN
        (Done(c) /\ config.origin.kind = "string") =>
            /\ c.pc = "returned"
            /\ WasSet(c, "Access-Control-Allow-Origin")
            /\ HeadersGet(c.response.headers, "Access-Control-Allow-Origin")
                  = IF config.origin.str # "" THEN config.origin ELSE Str("*")

\* a call under a literal origin for a request of another origin
C4_Witness ==
    \E s \in DOMAIN ctx :
        /\ ctx[s].pc = "returned"
        /\ config.origin = Str("https://example.com")
        /\ HasOrigin(ctx[s])
        /\ OriginOf(ctx[s]) = "https://different.com"
        /\ WasSet(ctx[s], "Access-Control-Allow-Origin")

---------------------------------------------------------------------------
(* C5 as stated: the 204 response of a preflight carries exactly the       *)
(* headers the call set, whatever the response held before the call.       *)
C5_AsStated ==
    \A s \in DOMAIN ctx :
        LET c == ctx[s] IN
        (c.pc = "returned" /\ c.request.method = "OPTIONS") =>
            DOMAIN c.result.headers = SetNames(c)

(* C5, amended: the 204 response of a preflight carries exactly the        *)
(* headers of the context's response after the call: those the call set,   *)
(* with the values it set, and those the response held before the call     *)
(* under other names, with the values they had.                            *)
C5_PreflightHeaders ==
    \A s \in DOMAIN ctx :
        LET c == ctx[s] IN
        (c.pc = "returned" /\ c.request.method = "OPTIONS") =>
            /\ DOMAIN c.result.headers = SetNames(c) \cup DOMAIN c.before
            /\ \A i \in 1..Len(c.sets) :
                 (\A j \in (i + 1)..Len(c.sets) : c.sets[j][1] # c.sets[i][1]) =>
                    c.result.headers[Lower(c.sets[i][1])] = c.sets[i][2]
            /\ \A n \in DOMAIN c.before \ SetNames(c) : c.result.headers[n] = c.before[n]

\* a preflight answered on a response that held headers before the call
C5_Witness ==
    \E s \in DOMAIN ctx :
        /\ ctx[s].pc = "returned"
        /\ ctx[s].request.method = "OPTIONS"
        /\ ctx[s].result.kind = "Response"
        /\ "x-request-id" \in DOMAIN ctx[s].before
        /\ ctx[s].sets # <<>>

---------------------------------------------------------------------------
(* C6: a call only adds or overwrites: every header the response held      *)
(* before the call is still there, and one whose name is not one of the    *)
(* six Access-Control-* names has the value it had.                        *)
CorsNames ==
    { "access-control-allow-origin", "access-control-allow-credentials",
      "access-control-allow-methods", "access-control-allow-headers",
      "access-control-max-age", "access-control-expose-headers" }

C6_OnlyAddsOrOverwrites ==
    \A s \in DOMAIN ctx :
        LET c == ctx[s] IN
        /\ SetNames(c) \subseteq CorsNames
        /\ \A n \in DOMAIN c.before :
             /\ n \in DOMAIN c.response.headers
             /\ n \notin CorsNames => c.response.headers[n] = c.before[n]

\* a call that overwrote a header of the response and kept another
C6_Witness ==
    \E s \in DOMAIN ctx :
        /\ ctx[s].pc = "returned"
        /\ "access-control-expose-headers" \in DOMAIN ctx[s].before
        /\ ctx[s].response.headers["access-control-expose-headers"] = "X-Total-Count, X-Page-Number"
        /\ ctx[s].response.headers["x-request-id"] = "42"

---------------------------------------------------------------------------
(* C7: for methods, headers and exposeHeaders: a call that returns has set *)
(* the field's header to the list's elements joined with ", " in the       *)
(* declared order when the list is not empty, and has not set it when the  *)
(* list is empty (on a response that held no headers it is then absent,    *)
(* not the empty string).                                                   *)
ListFields ==
    { <<"methods", "Access-Control-Allow-Methods">>,
      <<"headers", "Access-Control-Allow-Headers">>,
      <<"exposeHeaders", "Access-Control-Expose-Headers">> }

C7_ListHeaders ==
    \A s \in DOMAIN ctx :
        LET c == ctx[s] IN
        c.pc = "returned" =>
          \A fh \in ListFields :
            LET v == config[fh[1]] IN
            v.kind = "array" =>
              IF Len(v.arr) > 0
                 THEN /\ WasSet(c, fh[2])
                      /\ HeadersGet(c.response.headers, fh[2]) = Str(Join(v.arr, ", "))
                 ELSE /\ ~WasSet(c, fh[2])
                      /\ c.before = NoHeaders => HeadersGet(c.response.headers, fh[2]) = Null

\* a call under lists given out of alphabetical order, and an empty one
C7_Witness ==
    \E s \in DOMAIN ctx :
        /\ ctx[s].pc = "returned"
        /\ config.exposeHeaders = Arr(<<>>)
        /\ ctx[s].before = NoHeaders
        /\ HeadersGet(ctx[s].response.headers, "Access-Control-Allow-Methods") = Str("POST, GET")
        /\ HeadersGet(ctx[s].response.headers, "Access-Control-Allow-Headers")
              = Str("Content-Type, X-Custom-Header")
        /\ HeadersGet(ctx[s].response.headers, "Access-Control-Expose-Headers") = Null

---------------------------------------------------------------------------
(* C8: the configuration holds, for every field the constructor was not    *)
(* given, the default (origin "*"; methods GET, POST, PUT, PATCH, DELETE,  *)
(* OPTIONS, TRACE; headers Content-Type, Authorization; maxAge "86400";    *)
(* credentials false; exposeHeaders empty) and, for every field it was     *)
(* given, the value given; and a call that returns under the default       *)
(* configuration has set Access-Control-Allow-Origin "*", -Methods         *)
(* "GET, POST, PUT, PATCH, DELETE, OPTIONS, TRACE", -Headers               *)
(* "Content-Type, Authorization" and -Max-Age "86400", and nothing else.   *)
C8_Defaults ==
    /\ supplied.origin = Absent => config.origin = Str("*")
    /\ supplied.methods = Absent =>
         config.methods = Arr(<<"GET", "POST", "PUT", "PATCH", "DELETE", "OPTIONS", "TRACE">>)
    /\ supplied.headers = Absent => config.headers = Arr(<<"Content-Type", "Authorization">>)
    /\ supplied.maxAge = Absent => config.maxAge = Str("86400")
    /\ supplied.credentials = Absent => config.credentials = Bool(FALSE)
    /\ supplied.exposeHeaders = Absent => config.exposeHeaders = Arr(<<>>)
    /\ \A f \in Fields : supplied[f] # Absent => config[f] = supplied[f]
    /\ \A s \in DOMAIN ctx :
         (ctx[s].pc = "returned" /\ \A f \in Fields : supplied[f] = Absent) =>
            ctx[s].sets =
               << <<"Access-Control-Allow-Origin", "*">>,
                  <<"Access-Control-Allow-Methods", "GET, POST, PUT, PATCH, DELETE, OPTIONS, TRACE">>,
                  <<"Access-Control-Allow-Headers", "Content-Type, Authorization">>,
                  <<"Access-Control-Max-Age", "86400">> >>

\* a call under the configuration of a constructor that was given nothing
C8_Witness ==
    \E s \in DOMAIN ctx :
        /\ ctx[s].pc = "returned"
        /\ \A f \in Fields : supplied[f] = Absent
        /\ Len(ctx[s].sets) = 4

\* a configuration with one field given and its siblings defaulted
C8_WitnessPartial ==
    /\ supplied.maxAge = Str("7200")
    /\ \A f \in Fields \ {"maxAge"} : supplied[f] = Absent
    /\ \E s \in DOMAIN ctx : ctx[s].pc = "returned"

---------------------------------------------------------------------------
(* C9: when the origin predicate throws on the request's Origin, the call  *)
(* throws that same error, having set no response header and not called   *)
(* next; and a call throws in no other case.                               *)
C9_PredicateErrorPropagates ==
    \A s \in DOMAIN ctx :
        LET c == ctx[s] IN
        /\ (Done(c) /\ PredicateThrows(config, c)) =>
              /\ c.pc = "threw"
              /\ c.error = CallOrigin(config.origin.fn, OriginOf(c)).error
              /\ c.error \in {"Error: forbidden origin", "TypeError: broken"}
              /\ c.sets = <<>>
              /\ c.response.headers = c.before
              /\ c.nextCalls = 0
              /\ c.result = NoResult
        /\ c.pc = "threw" => PredicateThrows(config, c)

\* a call that threw what the predicate threw, on a response that held headers
C9_Witness ==
    \E s \in DOMAIN ctx :
        /\ ctx[s].pc = "threw"
        /\ ctx[s].error = "Error: forbidden origin"
        /\ ctx[s].before # NoHeaders

---------------------------------------------------------------------------
(* C10: the configuration is, after any number of calls, the one the       *)
(* constructor resolved, and what a call did (the headers it set, the      *)
(* response headers, its result or error, whether it called next) is what  *)
(* a first call on a fresh instance of the same configuration does for     *)
(* that request, whatever was handled before.                              *)
C10_NoStateBetweenCalls ==
    /\ config = Spread(initialiseDefaultConfig, supplied)
    /\ \A s \in DOMAIN ctx :
         LET c == ctx[s] IN
         Done(c) =>
            c = handleCors(Spread(initialiseDefaultConfig, supplied),
                           Context(c.request.method, c.request.headers, c.before, c.next))

\* a second call on the instance, under a predicate that rejects its request
C10_Witness ==
    /\ calls = 2
    /\ \E s \in DOMAIN ctx :
         /\ ctx[s].pc = "returned"
         /\ config.origin.kind = "function"
         /\ ~WasSet(ctx[s], "Access-Control-Allow-Origin")

---------------------------------------------------------------------------
(* C11: with the statements of calls on different contexts interleaved in  *)
(* any order, under one configuration and with no lock, every call ends    *)
(* exactly as it does alone (the same response headers, the same set       *)
(* calls, the same result or error, next called as often), and at every    *)
(* moment a context's response holds what it held before its call plus     *)
(* what its own call set, and nothing of another call's.                   *)

\* the headers h after the set calls of `sets`, in order
RECURSIVE Replay(_, _)
Replay(h, sets) ==
    IF sets = <<>> THEN h
    ELSE Replay(HeadersSet(h, sets[1][1], sets[1][2]), Tail(sets))

\* the call of context c, run alone from its request
Alone(c) ==
    handleCors(Spread(initialiseDefaultConfig, supplied),
               Context(c.request.method, c.request.headers, c.before, c.next))

C11_InterleavedAsAlone ==
    \A s \in DOMAIN ctx :
        LET c == ctx[s] IN
        /\ c.response.headers = Replay(c.before, c.sets)
        /\ Done(c) => c = Alone(c)

\* two calls that overlapped and ended differently: one allowed its origin
\* and answered the preflight, the other threw
C11_Witness ==
    /\ overlap = {1, 2}
    /\ ctx[1].pc = "returned"
    /\ ctx[1].result.kind = "Response"
    /\ WasSet(ctx[1], "Access-Control-Allow-Credentials")
    /\ ctx[1].before = NoHeaders
    /\ ctx[2].pc = "threw"
    /\ ctx[2].before # NoHeaders

====
